---- MODULE Spec2Model ----
(***************************************************************************)
(* A model of cpp::Thread (a std::jthread with a start-up handshake, a     *)
(* captured exception and a stop token in a thread-local Info) and of      *)
(* cpp::Mutex / cpp::Mutex::Lock (a std::mutex with a                      *)
(* std::condition_variable_any whose waits observe the caller's stop       *)
(* token).                                                                 *)
(*                                                                         *)
(* OS threads are "main" and "aux" (not started through cpp::Thread) and   *)
(* the workers "w1", "w2" that constructing the Thread objects "h1", "h2"  *)
(* starts.  Every statement of the source that another thread can observe  *)
(* is one step of the thread that executes it.                             *)
(***************************************************************************)
EXTENDS Integers, FiniteSets, Sequences, TLC

\* The number of member-function calls the main thread makes.
MaxOps == 4
\* The number of member-function calls the second client thread makes.
MaxAuxOps == 2
\* The number of calls of a counting predicate within one wait.
MaxCalls == 3

None == "none"
Callers == {"main", "aux"}
Workers == {"w1", "w2"}
Threads == Callers \cup Workers
Handles == {"h1", "h2"}

\* The units of work a Thread is constructed with.
Works == {"ret", "throw", "sleep", "wait", "yield", "reset"}

\* duration_t::max( ), the "infinite" duration of waitFor.
DurMax == 3
Durations == {-1, 0, 1, DurMax}

\* Units of work that take the client's Mutex M and wait on it:
\* lock.waitFor( d, [&]{ ++calls; return ready; } ) for each duration d,
\* and the unconditioned lock.waitFor( d ) with d > 0.
WaitForWork(d) ==
    CASE d = -1     -> "waitFor(-1)"
      [] d = 0      -> "waitFor(0)"
      [] d = 1      -> "waitFor(1)"
      [] d = DurMax -> "waitFor(max)"
WaitForWorks == {WaitForWork(d) : d \in Durations}
Duration(f) ==
    IF f = "timedWait" THEN 1
    ELSE CHOOSE d \in Durations : WaitForWork(d) = f
LockWorks == WaitForWorks \cup {"timedWait", "wait"}

\* Units of work around the destruction of the Thread object: the owned
\* thread destroys the Thread it runs in.
DtorWorks == {"ret", "sleep", "destroy"}

\* The OS thread that the constructor of Thread object h starts, and back.
WorkerOf(h) == IF h = "h1" THEN "w1" ELSE "w2"
HandleOf(w) == IF w = "w1" THEN "h1" ELSE "h2"

\* The mutexes: the constructor's handshake Mutex (one per started worker),
\* the Mutex local to a call of Thread::sleep, and one Mutex of the client.
UserMutex == <<"user", "M">>
HsMutex(w) == <<"hs", w>>
SleepMutex(t) == <<"sl", t>>
Mutexes == {UserMutex} \cup {HsMutex(w) : w \in Workers}
                       \cup {SleepMutex(t) : t \in Threads}

VARIABLES
    pc,             \* [Threads -> label]: the statement each OS thread is at
    op,             \* [Threads -> name]: the call in progress (or the last one)
    hnd,            \* [Threads -> Handles]: the Thread object of that call
    ops,            \* [Callers -> Nat]: calls started so far
    raised,         \* [Threads -> exception]: what the last call threw
    e,              \* [Threads -> exception]: checkException's local e
    state,          \* [Handles -> "raw" | "starting" | "live" | "moved"]
    m_thread,       \* [Handles -> [tid, ssource]]: the std::jthread member
    m_info,         \* [Handles -> Threads | None]: the shared_ptr<Info> member
    info,           \* [Threads -> [exception, stopToken]]: thread_local Info
    stop_requested, \* [Workers -> BOOLEAN]: the stop state of each jthread
    work,           \* [Workers -> Works | None]: the unit of work f
    owner,          \* [Mutexes -> Threads | None]: who holds each std::mutex
    initial,        \* [Threads -> BOOLEAN]: the flag of wait()'s predicate
    woken,          \* [Threads -> BOOLEAN]: notified while blocked
    timedout,       \* [Threads -> BOOLEAN]: the last cv wait timed out
    result,         \* [Threads -> BOOLEAN]: what waitUntil returns
    ready,          \* the client's condition, guarded by UserMutex
    self,           \* [Threads -> Threads | None]: checkException's this
    delivered,      \* [Workers -> Nat]: times a worker's failure was rethrown
    cause,          \* [Threads -> name]: what ended the last cv wait
    calls           \* [Threads -> Nat]: calls of the client's counting predicate

vars == <<pc, op, hnd, ops, raised, e, state, m_thread, m_info, info,
          stop_requested, work, owner, initial, woken, timedout, result,
          ready, self, delivered, cause, calls>>

----------------------------------------------------------------------------
\* Thread::Thread( ) and a moved-from std::jthread: no thread, no stop state.
EmptyJThread == [tid |-> None, ssource |-> None]

\* Thread::Info::Info( ): no exception, a stop_token without stop state.
NewInfo == [exception |-> None, stopToken |-> None]

Init ==
    /\ pc = [t \in Threads |-> IF t \in Callers THEN "idle" ELSE "unborn"]
    /\ op = [t \in Threads |-> None]
    /\ hnd = [t \in Threads |-> IF t \in Workers THEN HandleOf(t) ELSE "h1"]
    /\ ops = [c \in Callers |-> 0]
    /\ raised = [t \in Threads |-> None]
    /\ e = [t \in Threads |-> None]
    /\ state = [h \in Handles |-> "raw"]
    /\ m_thread = [h \in Handles |-> EmptyJThread]
    /\ m_info = [h \in Handles |-> None]
    /\ info = [t \in Threads |-> NewInfo]
    /\ stop_requested = [w \in Workers |-> FALSE]
    /\ work = [w \in Workers |-> None]
    /\ owner = [m \in Mutexes |-> None]
    /\ initial = [t \in Threads |-> TRUE]
    /\ woken = [t \in Threads |-> FALSE]
    /\ timedout = [t \in Threads |-> FALSE]
    /\ result = [t \in Threads |-> FALSE]
    /\ ready = FALSE
    /\ self = [t \in Threads |-> None]
    /\ delivered = [w \in Workers |-> 0]
    /\ cause = [t \in Threads |-> None]
    /\ calls = [t \in Threads |-> 0]

----------------------------------------------------------------------------
\* std::stop_token::stop_requested( ) of the token stored in thread t's Info.
StopRequested(t) ==
    /\ info[t].stopToken # None
    /\ stop_requested[info[t].stopToken]

\* Thread::isInterrupted( )
isInterrupted(t) == StopRequested(t)

\* Thread::isRunning( )
isRunning(h) == m_thread[h].tid # None

\* The other Thread object: the source of a move into h.
Other(h) == CHOOSE x \in Handles : x # h

\* The mutexes after every std::unique_lock that thread t holds is destroyed.
Unlocked(t) == [m \in Mutexes |-> IF owner[m] = t THEN None ELSE owner[m]]

\* The call in progress ends: it returns (x = None) or throws x.  A caller
\* sees x; in a worker the call is the unit of work, so x reaches the
\* catch ( ... ) of the thread's lambda and is stored in its Info, and the
\* thread ends.  inf is the Info table after the step's own writes.
Finish(t, x, inf) ==
    /\ pc' = [pc EXCEPT ![t] = IF t \in Callers THEN "idle" ELSE "finished"]
    /\ raised' = [raised EXCEPT ![t] = x]
    /\ info' = IF t \in Workers /\ x # None
               THEN [inf EXCEPT ![t].exception = x]
               ELSE inf

\* The first statement of each member function a client calls.
Entry(name) ==
    CASE name = "ctor"      -> "ctor_begin"
      [] name = "dctor"     -> "dctor"
      [] name = "mctor"     -> "mctor"
      [] name = "assign"    -> "reset_begin"
      [] name = "interrupt" -> "interrupt"
      [] name = "join"      -> "join_begin"
      [] name = "check"     -> "check_test"
      [] name = "detach"    -> "detach"
      [] name = "reset"     -> "reset_begin"
      [] name = "yield"     -> "y_check1"
      [] name = "signal"    -> "mu_lock"
      [] name = "destroy"   -> "dtor_begin"

\* The members a client calls on Thread objects that it keeps alive.
SeqCalls == {"ctor", "dctor", "mctor", "assign", "interrupt", "join",
             "check", "detach", "reset", "yield", "signal"}

\* What each client thread calls: main uses the whole interface and lets
\* Thread objects go out of scope, the second client makes the calls that
\* any thread may make on a Thread object.
CallsOf(c) ==
    CASE c = "main" -> SeqCalls \cup {"destroy"}
      [] c = "aux"  -> {"interrupt", "join", "check"}
      [] OTHER      -> {}

Budget(c) == IF c = "main" THEN MaxOps ELSE MaxAuxOps

\* A call is made on an object that exists: a constructor on raw storage,
\* the other members on a constructed (possibly moved-from) object.
Callable(name, h) ==
    CASE name \in {"ctor", "dctor"} -> state[h] = "raw"
      [] name = "mctor"  -> state[h] = "raw" /\ state[Other(h)] \in {"live", "moved"}
      [] name = "assign" -> /\ state[h] \in {"live", "moved"}
                            /\ state[Other(h)] \in {"live", "moved"}
      [] name \in {"yield", "signal"} -> h = "h1"
      [] OTHER -> state[h] \in {"live", "moved"}

\* The Thread objects that a call of member function name on h uses.
Touched(name, h) ==
    CASE name \in {"yield", "signal"} -> {}
      [] name \in {"assign", "mctor"} -> Handles
      [] OTHER -> {h}

\* The Thread objects that thread t is inside a member function of.
InUse(t) ==
    IF pc[t] \in {"idle", "unborn", "finished"} THEN {}
    ELSE IF t \in Callers THEN Touched(op[t], hnd[t])
    ELSE IF pc[t] \in {"reset_begin", "reset_join", "dtor_begin",
                        "dtor_join"} THEN {hnd[t]}
    ELSE {}

\* A Thread object is not safe for concurrent use: the client calls a
\* member on it from the unit of work only while no client thread is inside
\* a member of that object, and the other way round.
Exclusive(t, uses) ==
    \A u \in Threads \ {t} :
       (t \in Workers \/ u \in Workers) => InUse(u) \cap uses = {}

\* Client thread c calls member function name of Thread object h.
Call(c, name, h) ==
    /\ pc[c] = "idle"
    /\ Exclusive(c, Touched(name, h))
    /\ ops[c] < Budget(c)
    /\ name \in CallsOf(c)
    /\ Callable(name, h)
    /\ ops' = [ops EXCEPT ![c] = @ + 1]
    /\ op' = [op EXCEPT ![c] = name]
    /\ hnd' = [hnd EXCEPT ![c] = h]
    /\ pc' = [pc EXCEPT ![c] = Entry(name)]
    /\ UNCHANGED <<raised, e, state, m_thread, m_info, info, stop_requested,
                   work, owner, initial, calls, woken, timedout, cause,
                   result, ready, self, delivered>>

----------------------------------------------------------------------------
\* Thread::Thread( Function && f, Args &&... args )

\* The constructor up to its loop: the handshake Mutex is locked and the
\* jthread is started with the lambda.
CtorBegin(t, f) ==
    /\ pc[t] = "ctor_begin"
    /\ LET h == hnd[t]
           w == WorkerOf(h)
       IN  /\ state' = [state EXCEPT ![h] = "starting"]
           /\ m_info' = [m_info EXCEPT ![h] = None]
           /\ owner' = [owner EXCEPT ![HsMutex(w)] = t]
           /\ m_thread' = [m_thread EXCEPT ![h] = [tid |-> w, ssource |-> w]]
           /\ work' = [work EXCEPT ![w] = f]
           /\ pc' = [pc EXCEPT ![t] = "ctor_loop", ![w] = "hs_lock"]
    /\ UNCHANGED <<op, hnd, ops, raised, e, info, stop_requested, initial,
                   calls, woken, timedout, cause, result, ready, self,
                   delivered>>

\* while ( !m_info ) { lock.wait( ); } and the return of the constructor,
\* which destroys the Lock and the Mutex.
CtorLoop(t) ==
    /\ pc[t] = "ctor_loop"
    /\ LET h == hnd[t] IN
       IF m_info[h] # None
       THEN /\ owner' = Unlocked(t)
            /\ state' = [state EXCEPT ![h] = "live"]
            /\ Finish(t, None, info)
            /\ UNCHANGED <<initial, calls>>
       ELSE /\ initial' = [initial EXCEPT ![t] = TRUE]
            /\ pc' = [pc EXCEPT ![t] = "wu_check1"]
            /\ UNCHANGED <<owner, state, raised, info, calls>>
    /\ UNCHANGED <<op, hnd, ops, e, m_thread, m_info, stop_requested, work,
                   woken, timedout, cause, result, ready, self, delivered>>

\* The lambda without the handshake lock: it does not wait for the mutex.
HsLock_NoMutex(w) ==
    /\ pc[w] = "hs_lock"
    /\ pc' = [pc EXCEPT ![w] = "hs_info"]
    /\ UNCHANGED <<op, hnd, ops, raised, e, state, m_thread, m_info, info,
                   stop_requested, work, owner, initial, calls, woken,
                   timedout, cause, result, ready, self, delivered>>

\* The lambda the jthread runs, up to the call of f.
HsLock(w) ==
    /\ pc[w] = "hs_lock"
    /\ owner[HsMutex(w)] = None
    /\ owner' = [owner EXCEPT ![HsMutex(w)] = w]
    /\ pc' = [pc EXCEPT ![w] = "hs_info"]
    /\ UNCHANGED <<op, hnd, ops, raised, e, state, m_thread, m_info, info,
                   stop_requested, work, initial, calls, woken, timedout,
                   cause, result, ready, self, delivered>>

HsInfo(w) ==
    /\ pc[w] = "hs_info"
    /\ m_info' = [m_info EXCEPT ![HandleOf(w)] = w]
    /\ pc' = [pc EXCEPT ![w] = "hs_token"]
    /\ UNCHANGED <<op, hnd, ops, raised, e, state, m_thread, info,
                   stop_requested, work, owner, initial, calls, woken,
                   timedout, cause, result, ready, self, delivered>>

HsToken(w) ==
    /\ pc[w] = "hs_token"
    /\ info' = [info EXCEPT ![w].stopToken = w]
    /\ pc' = [pc EXCEPT ![w] = "hs_unlock"]
    /\ UNCHANGED <<op, hnd, ops, raised, e, state, m_thread, m_info,
                   stop_requested, work, owner, initial, calls, woken,
                   timedout, cause, result, ready, self, delivered>>

HsUnlock(w) ==
    /\ pc[w] = "hs_unlock"
    /\ owner' = [owner EXCEPT ![HsMutex(w)] = None]
    /\ pc' = [pc EXCEPT ![w] = "hs_notify"]
    /\ UNCHANGED <<op, hnd, ops, raised, e, state, m_thread, m_info, info,
                   stop_requested, work, initial, calls, woken, timedout,
                   cause, result, ready, self, delivered>>

\* The threads blocked in a wait on the condition variable of mutex m.
WaitMutex(t) ==
    CASE op[t] = "ctor"  -> HsMutex(WorkerOf(hnd[t]))
      [] op[t] = "sleep" -> SleepMutex(t)
      [] OTHER           -> UserMutex

\* std::condition_variable_any::notify_all( ) on the condition variable
\* that belongs to mutex m: every thread blocked on it is notified.
NotifyAll(m) ==
    [t \in Threads |-> IF pc[t] = "wu_blocked" /\ WaitMutex(t) = m
                       THEN TRUE ELSE woken[t]]

\* The process has ended: std::terminate( ), or a crash.  The step that
\* ends it is no thread's return from the call it is in.
Terminated == [t \in Threads |-> "terminated"]
ProcessAlive == \A t \in Threads : pc[t] # "terminated"

\* A lambda that never notifies the constructor.
HsNotify_NoNotify(w) ==
    /\ pc[w] = "hs_notify"
    /\ pc' = [pc EXCEPT ![w] = "run"]
    /\ UNCHANGED <<op, hnd, ops, raised, e, state, m_thread, m_info, info,
                   stop_requested, work, owner, initial, calls, woken,
                   timedout, cause, result, ready, self, delivered>>

\* lock.notifyAll( ) of the lambda, on the condition variable of the
\* constructor's local Mutex.  Once the constructor has exited that Mutex
\* is destroyed and the call is undefined: nothing happens, or the process
\* crashes.
HsNotify(w) ==
    /\ pc[w] = "hs_notify"
    /\ \/ /\ woken' = NotifyAll(HsMutex(w))
          /\ pc' = [pc EXCEPT ![w] = "run"]
       \/ /\ state[HandleOf(w)] # "starting"
          /\ pc' = Terminated
          /\ UNCHANGED woken
    /\ UNCHANGED <<op, hnd, ops, raised, e, state, m_thread, m_info, info,
                   stop_requested, work, owner, initial, calls, timedout,
                   cause, result, ready, self, delivered>>

\* try { f( args... ); } catch ( ... ) { info( )->exception = ...; }
\* f is one of: return; throw E; Thread::sleep( d ) with d > 0;
\* { auto lock = M.lock( ); lock.wait( [&]{ return ready; } ); };
\* Thread::yield( ); reset( ) of the Thread object the thread runs in;
\* the waits of LockWorks on the client's Mutex; the destruction of the
\* Thread object the thread runs in.
Run(w) ==
    /\ pc[w] = "run"
    /\ CASE work[w] = "ret" ->
              /\ Finish(w, None, info)
              /\ UNCHANGED <<op, owner, initial, calls>>
         [] work[w] = "throw" ->
              /\ Finish(w, "E", info)
              /\ UNCHANGED <<op, owner, initial, calls>>
         [] work[w] = "sleep" ->
              /\ op' = [op EXCEPT ![w] = "sleep"]
              /\ owner' = [owner EXCEPT ![SleepMutex(w)] = w]
              /\ initial' = [initial EXCEPT ![w] = TRUE]
              /\ pc' = [pc EXCEPT ![w] = "wu_check1"]
              /\ UNCHANGED <<raised, info, calls>>
         [] work[w] \in WaitForWorks \cup {"timedWait"} ->
              /\ op' = [op EXCEPT ![w] = work[w]]
              /\ pc' = [pc EXCEPT ![w] = "mu_lock"]
              /\ UNCHANGED <<raised, info, owner, initial, calls>>
         [] work[w] = "destroy" ->
              /\ op' = [op EXCEPT ![w] = "destroy"]
              /\ pc' = [pc EXCEPT ![w] = "dtor_begin"]
              /\ UNCHANGED <<raised, info, owner, initial, calls>>
         [] work[w] = "wait" ->
              /\ op' = [op EXCEPT ![w] = "wait"]
              /\ pc' = [pc EXCEPT ![w] = "mu_lock"]
              /\ UNCHANGED <<raised, info, owner, initial, calls>>
         [] work[w] = "yield" ->
              /\ op' = [op EXCEPT ![w] = "yield"]
              /\ pc' = [pc EXCEPT ![w] = "y_check1"]
              /\ UNCHANGED <<raised, info, owner, initial, calls>>
         [] work[w] = "reset" ->
              /\ op' = [op EXCEPT ![w] = "reset"]
              /\ pc' = [pc EXCEPT ![w] = "reset_begin"]
              /\ UNCHANGED <<raised, info, owner, initial, calls>>
    /\ UNCHANGED <<hnd, ops, e, state, m_thread, m_info, stop_requested,
                   work, woken, timedout, cause, result, ready, self,
                   delivered>>

----------------------------------------------------------------------------
\* Mutex::lock( ): Lock( m_mutex, m_cv ) blocks until the mutex is free.
MuLock(t) ==
    /\ pc[t] = "mu_lock"
    /\ owner[UserMutex] = None
    /\ owner' = [owner EXCEPT ![UserMutex] = t]
    /\ pc' = [pc EXCEPT ![t] =
                 CASE op[t] = "signal" -> "sig_set"
                   [] op[t] \in WaitForWorks \cup {"timedWait"} -> "wf_begin"
                   [] OTHER -> "wu_check1"]
    /\ UNCHANGED <<op, hnd, ops, raised, e, state, m_thread, m_info, info,
                   stop_requested, work, initial, calls, woken, timedout,
                   cause, result, ready, self, delivered>>

\* The client's { auto lock = M.lock( ); ready = true; lock.notifyAll( ); }
SigSet(t) ==
    /\ pc[t] = "sig_set"
    /\ ready' = TRUE
    /\ woken' = NotifyAll(UserMutex)
    /\ owner' = Unlocked(t)
    /\ Finish(t, None, info)
    /\ UNCHANGED <<op, hnd, ops, e, state, m_thread, m_info, stop_requested,
                   work, initial, calls, timedout, cause, result, self,
                   delivered>>

\* The predicate of the wait in progress: the alternating
\* [&]( ) { return initial = !initial; } of wait( ), waitFor( d ) and
\* waitUntil( t ), or the client's [&]{ return ready; } (which in the
\* waitFor units of work also counts its calls).
ClientPred(t) == op[t] \in WaitForWorks \cup {"wait"}
PredValue(t) == IF ClientPred(t) THEN ready ELSE ~initial[t]
PredInitial(t) ==
    IF ClientPred(t) THEN initial ELSE [initial EXCEPT ![t] = ~initial[t]]
PredCalls(t) ==
    IF op[t] \in WaitForWorks THEN [calls EXCEPT ![t] = @ + 1] ELSE calls

\* The waits with a deadline: Thread::sleep and waitFor with a positive
\* finite duration; wait( ) and waitFor( duration_t::max( ) ) pass
\* time_point::max( ).
HasDeadline(t) == op[t] \in {"sleep", "timedWait", WaitForWork(1)}

\* std::cv_status of the unconditioned waitFor( d ) / waitUntil( t ):
\* waitUntil( t, pred ) ? std::cv_status::timeout : std::cv_status::no_timeout
cv_status(b) == IF b THEN "timeout" ELSE "no_timeout"

\* An InterruptException leaves waitUntil: the Lock of the scope is
\* destroyed.  Out of the constructor it also destroys the handshake Mutex
\* and the members (the jthread destructor requests a stop and joins).
WaitThrow(t) ==
    /\ owner' = Unlocked(t)
    /\ initial' = [initial EXCEPT ![t] = TRUE]
    /\ cause' = [cause EXCEPT ![t] = None]
    /\ IF op[t] = "ctor"
       THEN /\ pc' = [pc EXCEPT ![t] = "ctor_unwind"]
            /\ stop_requested' =
                 [stop_requested EXCEPT ![WorkerOf(hnd[t])] = TRUE]
            /\ UNCHANGED <<raised, info>>
       ELSE /\ Finish(t, "Interrupt", info)
            /\ UNCHANGED stop_requested

\* A waitFor without the test of the duration: it always goes on to
\* waitUntil.
WfBegin_AlwaysWait(t) ==
    /\ pc[t] = "wf_begin"
    /\ pc' = [pc EXCEPT ![t] = "wu_check1"]
    /\ UNCHANGED <<op, hnd, ops, raised, e, state, m_thread, m_info, info,
                   stop_requested, work, owner, initial, calls, woken,
                   timedout, cause, result, ready, self, delivered>>

\* waitFor( duration, stopWaiting ):
\*   if ( duration <= duration_t::zero( ) )
\*       { Thread::checkInterrupt( ); return stopWaiting( ); }
\*   ... return waitUntil( timeout, stopWaiting );
WfBegin(t) ==
    /\ pc[t] = "wf_begin"
    /\ IF Duration(op[t]) <= 0
       THEN IF StopRequested(t)
            THEN WaitThrow(t)
            ELSE /\ pc' = [pc EXCEPT ![t] = "wf_pred"]
                 /\ UNCHANGED <<owner, initial, cause, raised, info,
                                stop_requested>>
       ELSE /\ pc' = [pc EXCEPT ![t] = "wu_check1"]
            /\ UNCHANGED <<owner, initial, cause, raised, info,
                           stop_requested>>
    /\ UNCHANGED <<op, hnd, ops, e, state, m_thread, m_info, work, calls,
                   woken, timedout, result, ready, self, delivered>>

\* return stopWaiting( ); of a waitFor with no time to wait.
WfPred(t) ==
    /\ pc[t] = "wf_pred"
    /\ result' = [result EXCEPT ![t] = PredValue(t)]
    /\ initial' = [PredInitial(t) EXCEPT ![t] = TRUE]
    /\ calls' = PredCalls(t)
    /\ owner' = Unlocked(t)
    /\ Finish(t, None, info)
    /\ UNCHANGED <<op, hnd, ops, e, state, m_thread, m_info, stop_requested,
                   work, woken, timedout, cause, ready, self, delivered>>

\* waitUntil( timeout, stopWaiting ): the first Thread::checkInterrupt( ).
WuCheck1(t) ==
    /\ pc[t] = "wu_check1"
    /\ IF StopRequested(t)
       THEN WaitThrow(t)
       ELSE /\ pc' = [pc EXCEPT ![t] = "wu_pred"]
            /\ UNCHANGED <<owner, initial, cause, raised, info,
                           stop_requested>>
    /\ UNCHANGED <<op, hnd, ops, e, state, m_thread, m_info, work, calls,
                   woken, timedout, result, ready, self, delivered>>

\* m_cv.wait_until( m_lock, stopToken, timeout, stopWaiting ), the head of
\*   while ( !stoken.stop_requested( ) ) {
\*       if ( pred( ) ) return true;
\*       if ( wait_until( lock, abs_time ) == timeout ) return pred( ); }
\*   return pred( );
\* Blocking releases the mutex atomically.
WuPred(t) ==
    /\ pc[t] = "wu_pred"
    /\ initial' = PredInitial(t)
    /\ calls' = PredCalls(t)
    /\ IF StopRequested(t) \/ PredValue(t)
       THEN /\ result' = [result EXCEPT ![t] = PredValue(t)]
            /\ pc' = [pc EXCEPT ![t] = "wu_check2"]
            /\ UNCHANGED <<owner, woken>>
       ELSE /\ owner' = [owner EXCEPT ![WaitMutex(t)] = None]
            /\ woken' = [woken EXCEPT ![t] = FALSE]
            /\ pc' = [pc EXCEPT ![t] = "wu_blocked"]
            /\ UNCHANGED result
    /\ UNCHANGED <<op, hnd, ops, raised, e, state, m_thread, m_info, info,
                   stop_requested, work, timedout, cause, ready, self,
                   delivered>>

\* The blocked thread is woken, for the reason why: by a notification, by
\* the stop callback of its token, by the deadline, or spuriously.
Wake(t, byTimeout, why) ==
    /\ pc[t] = "wu_blocked"
    /\ pc' = [pc EXCEPT ![t] = "wu_reacq"]
    /\ timedout' = [timedout EXCEPT ![t] = byTimeout]
    /\ cause' = [cause EXCEPT ![t] = why]
    /\ woken' = [woken EXCEPT ![t] = FALSE]
    /\ UNCHANGED <<op, hnd, ops, raised, e, state, m_thread, m_info, info,
                   stop_requested, work, owner, initial, calls, result,
                   ready, self, delivered>>

WakeNotified(t) == woken[t] /\ Wake(t, FALSE, "notified")

WakeStop(t) == StopRequested(t) /\ Wake(t, FALSE, "stop")
WakeTimeout(t) == HasDeadline(t) /\ Wake(t, TRUE, "deadline")

\* A spurious wakeup; the counting predicate is called at most MaxCalls
\* times in one wait.
WakeSpurious(t) == calls[t] < MaxCalls /\ Wake(t, FALSE, "spurious")

\* A wait that returns on any wakeup without calling the predicate again.
WuReacq_NoRecheck(t) ==
    /\ pc[t] = "wu_reacq"
    /\ owner[WaitMutex(t)] = None
    /\ owner' = [owner EXCEPT ![WaitMutex(t)] = t]
    /\ timedout' = [timedout EXCEPT ![t] = FALSE]
    /\ result' = [result EXCEPT ![t] = ~timedout[t]]
    /\ pc' = [pc EXCEPT ![t] = "wu_check2"]
    /\ UNCHANGED <<op, hnd, ops, raised, e, state, m_thread, m_info, info,
                   stop_requested, work, woken, cause, ready, self,
                   delivered, initial, calls>>

\* A wait that takes the mutex back without waiting for it to be free.
WuReacq_NoMutex(t) ==
    /\ pc[t] = "wu_reacq"
    /\ owner' = [owner EXCEPT ![WaitMutex(t)] = t]
    /\ timedout' = [timedout EXCEPT ![t] = FALSE]
    /\ IF timedout[t]
       THEN /\ result' = [result EXCEPT ![t] = PredValue(t)]
            /\ initial' = PredInitial(t)
            /\ calls' = PredCalls(t)
            /\ pc' = [pc EXCEPT ![t] = "wu_check2"]
       ELSE /\ pc' = [pc EXCEPT ![t] = "wu_pred"]
            /\ UNCHANGED <<result, initial, calls>>
    /\ UNCHANGED <<op, hnd, ops, raised, e, state, m_thread, m_info, info,
                   stop_requested, work, woken, cause, ready, self,
                   delivered>>

\* The woken thread takes the mutex again; after a timeout wait_until
\* returns pred( ), otherwise the loop goes round.
WuReacq(t) ==
    /\ pc[t] = "wu_reacq"
    /\ owner[WaitMutex(t)] = None
    /\ owner' = [owner EXCEPT ![WaitMutex(t)] = t]
    /\ timedout' = [timedout EXCEPT ![t] = FALSE]
    /\ IF timedout[t]
       THEN /\ result' = [result EXCEPT ![t] = PredValue(t)]
            /\ initial' = PredInitial(t)
            /\ calls' = PredCalls(t)
            /\ pc' = [pc EXCEPT ![t] = "wu_check2"]
       ELSE /\ pc' = [pc EXCEPT ![t] = "wu_pred"]
            /\ UNCHANGED <<result, initial, calls>>
    /\ UNCHANGED <<op, hnd, ops, raised, e, state, m_thread, m_info, info,
                   stop_requested, work, woken, cause, ready, self,
                   delivered>>

\* waitUntil without its second Thread::checkInterrupt( ).
WuCheck2_NoCheck(t) ==
    /\ pc[t] = "wu_check2"
    /\ initial' = [initial EXCEPT ![t] = TRUE]
    /\ cause' = [cause EXCEPT ![t] = None]
    /\ IF op[t] = "ctor"
       THEN /\ pc' = [pc EXCEPT ![t] = "ctor_loop"]
            /\ UNCHANGED <<owner, raised, info>>
       ELSE /\ owner' = Unlocked(t)
            /\ Finish(t, None, info)
    /\ UNCHANGED <<op, hnd, ops, e, state, m_thread, m_info, work, calls,
                   woken, timedout, result, ready, self, delivered,
                   stop_requested>>

\* waitUntil whose second Thread::checkInterrupt( ) is skipped when the
\* predicate was satisfied.
WuCheck2_OnlyUnsatisfied(t) ==
    /\ pc[t] = "wu_check2"
    /\ IF StopRequested(t) /\ ~result[t]
       THEN WaitThrow(t)
       ELSE /\ initial' = [initial EXCEPT ![t] = TRUE]
            /\ cause' = [cause EXCEPT ![t] = None]
            /\ IF op[t] = "ctor"
               THEN /\ pc' = [pc EXCEPT ![t] = "ctor_loop"]
                    /\ UNCHANGED <<owner, raised, info, stop_requested>>
               ELSE /\ owner' = Unlocked(t)
                    /\ Finish(t, None, info)
                    /\ UNCHANGED stop_requested
    /\ UNCHANGED <<op, hnd, ops, e, state, m_thread, m_info, work, calls,
                   woken, timedout, result, ready, self, delivered>>

\* waitUntil: the second Thread::checkInterrupt( ) and return result.  The
\* constructor loops; sleep and the client's wait leave their scope.
WuCheck2(t) ==
    /\ pc[t] = "wu_check2"
    /\ IF StopRequested(t)
       THEN WaitThrow(t)
       ELSE /\ initial' = [initial EXCEPT ![t] = TRUE]
            /\ cause' = [cause EXCEPT ![t] = None]
            /\ IF op[t] = "ctor"
               THEN /\ pc' = [pc EXCEPT ![t] = "ctor_loop"]
                    /\ UNCHANGED <<owner, raised, info, stop_requested>>
               ELSE /\ owner' = Unlocked(t)
                    /\ Finish(t, None, info)
                    /\ UNCHANGED stop_requested
    /\ UNCHANGED <<op, hnd, ops, e, state, m_thread, m_info, work, calls,
                   woken, timedout, result, ready, self, delivered>>

\* Thread::yield( ): checkInterrupt( ); yield; checkInterrupt( ).
YCheck1(t) ==
    /\ pc[t] = "y_check1"
    /\ IF StopRequested(t)
       THEN Finish(t, "Interrupt", info)
       ELSE /\ pc' = [pc EXCEPT ![t] = "y_check2"]
            /\ UNCHANGED <<raised, info>>
    /\ UNCHANGED <<op, hnd, ops, e, state, m_thread, m_info, stop_requested,
                   work, owner, initial, calls, woken, timedout, cause,
                   result, ready, self, delivered>>

YCheck2(t) ==
    /\ pc[t] = "y_check2"
    /\ Finish(t, IF StopRequested(t) THEN "Interrupt" ELSE None, info)
    /\ UNCHANGED <<op, hnd, ops, e, state, m_thread, m_info, stop_requested,
                   work, owner, initial, calls, woken, timedout, cause,
                   result, ready, self, delivered>>

----------------------------------------------------------------------------
\* A stop state shared by every jthread.
RequestStop_Shared(h) ==
    IF m_thread[h].ssource # None
    THEN [w \in Workers |-> TRUE]
    ELSE stop_requested

\* A request that flips the stop state instead of setting it.
RequestStop_Toggle(h) ==
    IF m_thread[h].ssource # None
    THEN [stop_requested EXCEPT ![m_thread[h].ssource] = ~@]
    ELSE stop_requested

\* std::jthread::request_stop( ): sets the stop state the jthread holds.
RequestStop(h) ==
    IF m_thread[h].ssource # None
    THEN [stop_requested EXCEPT ![m_thread[h].ssource] = TRUE]
    ELSE stop_requested

\* Thread::interrupt( )
Interrupt(t) ==
    /\ pc[t] = "interrupt"
    /\ stop_requested' = RequestStop(hnd[t])
    /\ Finish(t, None, info)
    /\ UNCHANGED <<op, hnd, ops, e, state, m_thread, m_info, work, owner,
                   initial, calls, woken, timedout, cause, result, ready,
                   self, delivered>>

\* Thread::join( ): if ( isRunning( ) ) { m_thread.join( ); } check( );
JoinBegin(t) ==
    /\ pc[t] = "join_begin"
    /\ pc' = [pc EXCEPT ![t] = IF isRunning(hnd[t]) THEN "join_wait"
                               ELSE "check_test"]
    /\ UNCHANGED <<op, hnd, ops, raised, e, state, m_thread, m_info, info,
                   stop_requested, work, owner, initial, calls, woken,
                   timedout, cause, result, ready, self, delivered>>

\* A join that does not wait for the thread to end.
JoinWait_NoWait(t) ==
    /\ pc[t] = "join_wait"
    /\ m_thread' = [m_thread EXCEPT ![hnd[t]].tid = None]
    /\ pc' = [pc EXCEPT ![t] = "check_test"]
    /\ UNCHANGED <<op, hnd, ops, raised, e, state, m_info, info,
                   stop_requested, work, owner, initial, calls, woken,
                   timedout, cause, result, ready, self, delivered>>

\* m_thread.join( ) returns when the thread has ended (or when another
\* joiner has already emptied the jthread) and leaves it not joinable.
JoinWait(t) ==
    /\ pc[t] = "join_wait"
    /\ LET h == hnd[t] IN
       /\ isRunning(h) => pc[m_thread[h].tid] = "finished"
       /\ m_thread' = [m_thread EXCEPT ![h].tid = None]
    /\ pc' = [pc EXCEPT ![t] = "check_test"]
    /\ UNCHANGED <<op, hnd, ops, raised, e, state, m_info, info,
                   stop_requested, work, owner, initial, calls, woken,
                   timedout, cause, result, ready, self, delivered>>

\* Thread::check( ): if ( m_info ) { m_info->checkException( ); } with
\* Info::checkException's if ( exception ).
CheckTest(t) ==
    /\ pc[t] = "check_test"
    /\ LET i == m_info[hnd[t]] IN
       IF i # None /\ info[i].exception # None
       THEN /\ self' = [self EXCEPT ![t] = i]
            /\ pc' = [pc EXCEPT ![t] = "check_move"]
            /\ UNCHANGED <<raised, info>>
       ELSE /\ Finish(t, None, info)
            /\ UNCHANGED self
    /\ UNCHANGED <<op, hnd, ops, e, state, m_thread, m_info, stop_requested,
                   work, owner, initial, calls, woken, timedout, cause,
                   result, ready, delivered>>

\* auto e = std::move( exception );  The moved-from exception_ptr is left
\* as it was (a copy) or null, as the library chooses.
CheckMove(t) ==
    /\ pc[t] = "check_move"
    /\ e' = [e EXCEPT ![t] = info[self[t]].exception]
    /\ \E left \in {info[self[t]].exception, None} :
         info' = [info EXCEPT ![self[t]].exception = left]
    /\ pc' = [pc EXCEPT ![t] = "check_rethrow"]
    /\ UNCHANGED <<op, hnd, ops, raised, state, m_thread, m_info,
                   stop_requested, work, owner, initial, calls, woken,
                   timedout, cause, result, ready, self, delivered>>

\* checkException without exception = nullptr.
CheckRethrow_NoClear(t) ==
    /\ pc[t] = "check_rethrow"
    /\ Finish(t, IF e[t] = None THEN "Abort" ELSE e[t], info)
    /\ delivered' = IF e[t] = None THEN delivered
                    ELSE [delivered EXCEPT ![self[t]] = @ + 1]
    /\ e' = [e EXCEPT ![t] = None]
    /\ self' = [self EXCEPT ![t] = None]
    /\ UNCHANGED <<op, hnd, ops, state, m_thread, m_info, stop_requested,
                   work, owner, initial, calls, woken, timedout, cause,
                   result, ready>>

\* exception = nullptr; std::rethrow_exception( e );  Rethrowing a null
\* exception_ptr is undefined: the call ends in "Abort".
CheckRethrow(t) ==
    /\ pc[t] = "check_rethrow"
    /\ Finish(t, IF e[t] = None THEN "Abort" ELSE e[t],
              [info EXCEPT ![self[t]].exception = None])
    /\ delivered' = IF e[t] = None THEN delivered
                    ELSE [delivered EXCEPT ![self[t]] = @ + 1]
    /\ e' = [e EXCEPT ![t] = None]
    /\ self' = [self EXCEPT ![t] = None]
    /\ UNCHANGED <<op, hnd, ops, state, m_thread, m_info, stop_requested,
                   work, owner, initial, calls, woken, timedout, cause,
                   result, ready>>

\* A detach that requests the stop of the thread it lets go.
Detach_Interrupting(t) ==
    /\ pc[t] = "detach"
    /\ LET h == hnd[t] IN
       IF isRunning(h)
       THEN /\ m_thread' = [m_thread EXCEPT ![h].tid = None]
            /\ m_info' = [m_info EXCEPT ![h] = None]
            /\ stop_requested' = RequestStop(h)
       ELSE UNCHANGED <<m_thread, m_info, stop_requested>>
    /\ Finish(t, None, info)
    /\ UNCHANGED <<op, hnd, ops, e, state, work, owner, initial, calls,
                   woken, timedout, cause, result, ready, self, delivered>>

\* Thread::detach( )
Detach(t) ==
    /\ pc[t] = "detach"
    /\ LET h == hnd[t] IN
       IF isRunning(h)
       THEN /\ m_thread' = [m_thread EXCEPT ![h].tid = None]
            /\ m_info' = [m_info EXCEPT ![h] = None]
       ELSE UNCHANGED <<m_thread, m_info>>
    /\ Finish(t, None, info)
    /\ UNCHANGED <<op, hnd, ops, e, state, stop_requested, work, owner,
                   initial, calls, woken, timedout, cause, result, ready,
                   self, delivered>>

\* After reset( ): operator= goes on to move the members, a plain reset( )
\* returns.
ResetDone(t) ==
    IF op[t] = "assign"
    THEN /\ pc' = [pc EXCEPT ![t] = "assign_move"]
         /\ UNCHANGED <<raised, info>>
    ELSE Finish(t, None, info)

\* reset( ) without the comparison of thread ids: it always joins.
ResetBegin_AlwaysJoin(t) ==
    /\ pc[t] = "reset_begin"
    /\ t \in Workers => (op[t] = "reset" /\ Exclusive(t, {hnd[t]}))
    /\ LET h == hnd[t] IN
       IF isRunning(h)
       THEN /\ stop_requested' = RequestStop(h)
            /\ pc' = [pc EXCEPT ![t] = "reset_join"]
            /\ UNCHANGED <<m_thread, m_info, raised, info>>
       ELSE /\ ResetDone(t)
            /\ UNCHANGED <<stop_requested, m_thread, m_info>>
    /\ UNCHANGED <<op, hnd, ops, e, state, work, owner, initial, calls,
                   woken, timedout, cause, result, ready, self, delivered>>

\* Thread::reset( ) up to the join: interrupt( ), then the comparison of
\* Thread::id( ) with m_thread.get_id( ); the owned thread itself detaches.
ResetBegin(t) ==
    /\ pc[t] = "reset_begin"
    /\ t \in Workers => (op[t] = "reset" /\ Exclusive(t, {hnd[t]}))
    /\ LET h == hnd[t] IN
       IF isRunning(h)
       THEN /\ stop_requested' = RequestStop(h)
            /\ IF t # m_thread[h].tid
               THEN /\ pc' = [pc EXCEPT ![t] = "reset_join"]
                    /\ UNCHANGED <<m_thread, m_info, raised, info>>
               ELSE /\ m_thread' = [m_thread EXCEPT ![h].tid = None]
                    /\ m_info' = [m_info EXCEPT ![h] = None]
                    /\ ResetDone(t)
       ELSE /\ ResetDone(t)
            /\ UNCHANGED <<stop_requested, m_thread, m_info>>
    /\ UNCHANGED <<op, hnd, ops, e, state, work, owner, initial, calls,
                   woken, timedout, cause, result, ready, self, delivered>>

\* Thread::reset( ): m_thread.join( ); m_info = nullptr;
ResetJoin(t) ==
    /\ pc[t] = "reset_join"
    /\ LET h == hnd[t] IN
       /\ isRunning(h) => pc[m_thread[h].tid] = "finished"
       /\ m_thread' = [m_thread EXCEPT ![h].tid = None]
       /\ m_info' = [m_info EXCEPT ![h] = None]
    /\ ResetDone(t)
    /\ UNCHANGED <<op, hnd, ops, e, state, stop_requested, work, owner,
                   initial, calls, woken, timedout, cause, result, ready,
                   self, delivered>>

\* Thread::operator=( Thread && move ) after reset( ):
\* m_thread = std::move( move.m_thread ); m_info = std::move( move.m_info );
AssignMove(t) ==
    /\ pc[t] = "assign_move"
    /\ LET h == hnd[t]
           src == Other(hnd[t])
       IN  /\ m_thread' = [m_thread EXCEPT ![h] = m_thread[src],
                                           ![src] = EmptyJThread]
           /\ m_info' = [m_info EXCEPT ![h] = m_info[src], ![src] = None]
           /\ state' = [state EXCEPT ![h] = "live", ![src] = "moved"]
    /\ Finish(t, None, info)
    /\ UNCHANGED <<op, hnd, ops, e, stop_requested, work, owner, initial,
                   calls, woken, timedout, cause, result, ready, self,
                   delivered>>

\* Thread::Thread( Thread && move ):
\* m_thread( std::move( move.m_thread ) ), m_info( move.m_info )
MoveCtor(t) ==
    /\ pc[t] = "mctor"
    /\ LET h == hnd[t]
           src == Other(hnd[t])
       IN  /\ m_thread' = [m_thread EXCEPT ![h] = m_thread[src],
                                           ![src] = EmptyJThread]
           /\ m_info' = [m_info EXCEPT ![h] = m_info[src]]
           /\ state' = [state EXCEPT ![h] = "live", ![src] = "moved"]
    /\ Finish(t, None, info)
    /\ UNCHANGED <<op, hnd, ops, e, stop_requested, work, owner, initial,
                   calls, woken, timedout, cause, result, ready, self,
                   delivered>>

\* Thread::Thread( ) noexcept
DefaultCtor(t) ==
    /\ pc[t] = "dctor"
    /\ m_thread' = [m_thread EXCEPT ![hnd[t]] = EmptyJThread]
    /\ m_info' = [m_info EXCEPT ![hnd[t]] = None]
    /\ state' = [state EXCEPT ![hnd[t]] = "live"]
    /\ Finish(t, None, info)
    /\ UNCHANGED <<op, hnd, ops, e, stop_requested, work, owner, initial,
                   calls, woken, timedout, cause, result, ready, self,
                   delivered>>

\* std::jthread::join( ) on the caller's own thread: std::thread::join
\* throws std::system_error( resource_deadlock_would_occur ).
SelfJoin(t, h) == m_thread[h].tid = t

\* Thread::~Thread( ), implicit: m_info is released, then ~jthread( ) does
\* if ( joinable( ) ) { request_stop( ); join( ); }.  The Thread object
\* must exist, and the unit of work destroys it only while no client
\* thread is inside one of its members.
DtorBegin(t) ==
    /\ pc[t] = "dtor_begin"
    /\ state[hnd[t]] \in {"live", "moved"}
    /\ t \in Workers => Exclusive(t, {hnd[t]})
    /\ LET h == hnd[t] IN
       /\ m_info' = [m_info EXCEPT ![h] = None]
       /\ IF isRunning(h)
          THEN /\ stop_requested' = RequestStop(h)
               /\ pc' = [pc EXCEPT ![t] = "dtor_join"]
               /\ UNCHANGED <<state, raised, info>>
          ELSE /\ state' = [state EXCEPT ![h] = "dead"]
               /\ Finish(t, None, info)
               /\ UNCHANGED stop_requested
    /\ UNCHANGED <<op, hnd, ops, e, m_thread, work, owner, initial, calls,
                   woken, timedout, cause, result, ready, self, delivered>>

\* ~jthread( ): join( ).  It returns when the thread has ended; called on
\* the caller's own thread it throws out of a destructor, which is
\* std::terminate( ).
DtorJoin(t) ==
    /\ pc[t] = "dtor_join"
    /\ LET h == hnd[t] IN
       IF SelfJoin(t, h)
       THEN /\ pc' = Terminated
            /\ UNCHANGED <<m_thread, state, raised, info>>
       ELSE /\ pc[m_thread[h].tid] = "finished"
            /\ m_thread' = [m_thread EXCEPT ![h] = EmptyJThread]
            /\ state' = [state EXCEPT ![h] = "dead"]
            /\ Finish(t, None, info)
    /\ UNCHANGED <<op, hnd, ops, e, m_info, stop_requested, work, owner,
                   initial, calls, woken, timedout, cause, result, ready,
                   self, delivered>>

----------------------------------------------------------------------------
\* The members of Thread and the static members, as thread t runs them.
Member(t) ==
    \/ \E f \in Works : CtorBegin(t, f)
    \/ CtorLoop(t)
    \/ YCheck1(t)
    \/ YCheck2(t)
    \/ Interrupt(t)
    \/ JoinBegin(t)
    \/ JoinWait(t)
    \/ CheckTest(t)
    \/ CheckMove(t)
    \/ CheckRethrow(t)
    \/ Detach(t)
    \/ ResetBegin(t)
    \/ ResetJoin(t)
    \/ AssignMove(t)
    \/ MoveCtor(t)
    \/ DefaultCtor(t)

\* The members of Mutex and Mutex::Lock, as thread t runs them.
Waiting(t) ==
    \/ MuLock(t)
    \/ SigSet(t)
    \/ WuCheck1(t)
    \/ WuPred(t)
    \/ WakeNotified(t)
    \/ WakeStop(t)
    \/ WuReacq(t)
    \/ WuCheck2(t)

\* What the platform may do to a blocked thread but need not: the deadline
\* passes, or the condition variable wakes spuriously.
Unforced(t) ==
    \/ WakeTimeout(t)
    \/ WakeSpurious(t)

\* One step of the lambda of worker w before it calls f.
Start(w) ==
    \/ HsLock(w)
    \/ HsInfo(w)
    \/ HsToken(w)
    \/ HsUnlock(w)
    \/ HsNotify(w)
    \/ Run(w)

\* The program with one client thread that uses the whole interface.
Next ==
    \/ \E name \in SeqCalls, h \in Handles : Call("main", name, h)
    \/ \E t \in {"main"} \cup Workers : Member(t) \/ Waiting(t) \/ Unforced(t)
    \/ \E w \in Workers : Start(w)

Spec == Init /\ [][Next]_vars

----------------------------------------------------------------------------
\* The program with a second client thread: both clients call interrupt( ),
\* join( ) and check( ) on the Thread objects that main constructs.
ConcNext ==
    \/ \E c \in Callers, name \in {"ctor", "interrupt", "join", "check"},
          h \in Handles : Call(c, name, h)
    \/ \E f \in {"ret", "throw"} : CtorBegin("main", f)
    \/ CtorLoop("main")
    \/ WuCheck1("main")
    \/ WuPred("main")
    \/ WakeNotified("main")
    \/ WakeSpurious("main")
    \/ WuReacq("main")
    \/ WuCheck2("main")
    \/ \E c \in Callers : Interrupt(c)
    \/ \E c \in Callers : JoinBegin(c)
    \/ \E c \in Callers : JoinWait(c)
    \/ \E c \in Callers : CheckTest(c)
    \/ \E c \in Callers : CheckMove(c)
    \/ \E c \in Callers : CheckRethrow(c)
    \/ \E w \in Workers : Start(w)

ConcSpec == Init /\ [][ConcNext]_vars

----------------------------------------------------------------------------
\* The program of readme.md and main.cpp: main constructs a Thread whose
\* unit of work blocks (in Thread::sleep, or in a wait( predicate ) that
\* nobody notifies), then calls interrupt( ) and join( ).
ScriptCall ==
    \/ ops["main"] = 0 /\ Call("main", "ctor", "h1")
    \/ ops["main"] = 1 /\ Call("main", "interrupt", "h1")
    \/ ops["main"] = 2 /\ Call("main", "join", "h1")

ScriptMain ==
    \/ ScriptCall
    \/ \E f \in {"sleep", "wait"} : CtorBegin("main", f)
    \/ CtorLoop("main")
    \/ WuCheck1("main")
    \/ WuPred("main")
    \/ WakeNotified("main")
    \/ WuReacq("main")
    \/ WuCheck2("main")
    \/ Interrupt("main")
    \/ JoinBegin("main")
    \/ JoinWait("main")
    \/ CheckTest("main")
    \/ CheckMove("main")
    \/ CheckRethrow("main")

ScriptWorker ==
    \/ Start("w1")
    \/ MuLock("w1")
    \/ WuCheck1("w1")
    \/ WuPred("w1")
    \/ WakeStop("w1")
    \/ WuReacq("w1")
    \/ WuCheck2("w1")

ScriptNext ==
    \/ ScriptMain
    \/ ScriptWorker
    \/ \E t \in {"main", "w1"} : Unforced(t)

\* Every thread that can take a step is eventually scheduled; nothing
\* forces a deadline to pass or a spurious wakeup to happen.
ScriptSpec ==
    /\ Init
    /\ [][ScriptNext]_vars
    /\ WF_vars(ScriptMain)
    /\ WF_vars(ScriptWorker)

----------------------------------------------------------------------------
\* The program whose units of work wait on the client's Mutex M: main
\* constructs the Threads, sets the condition and notifies under M, and
\* interrupts.
LockMain ==
    \/ \E name \in {"ctor", "interrupt", "signal"}, h \in Handles :
          Call("main", name, h)
    \/ \E f \in LockWorks : CtorBegin("main", f)
    \/ CtorLoop("main")
    \/ WuCheck1("main")
    \/ WuPred("main")
    \/ WakeNotified("main")
    \/ WuReacq("main")
    \/ WuCheck2("main")
    \/ Interrupt("main")
    \/ MuLock("main")
    \/ SigSet("main")

\* The steps of worker w up to and inside a wait that can block.
BlockingWorker(w) ==
    \/ Start(w)
    \/ MuLock(w)
    \/ WfBegin(w)
    \/ WuCheck1(w)
    \/ WuPred(w)
    \/ WakeNotified(w)
    \/ WakeStop(w)
    \/ WuReacq(w)
    \/ WuCheck2(w)

LockWorker(w) ==
    \/ Start(w)
    \/ MuLock(w)
    \/ WfBegin(w)
    \/ WfPred(w)
    \/ WuCheck1(w)
    \/ WuPred(w)
    \/ WakeNotified(w)
    \/ WakeStop(w)
    \/ WuReacq(w)
    \/ WuCheck2(w)

LockNext ==
    \/ LockMain
    \/ \E w \in Workers : LockWorker(w)
    \/ \E t \in {"main"} \cup Workers : Unforced(t)

LockSpec == Init /\ [][LockNext]_vars

----------------------------------------------------------------------------
\* Two units of work that contend for the client's Mutex M: main constructs
\* both Threads, then notifies under M and interrupts the first.
MutexCall ==
    \/ ops["main"] = 0 /\ Call("main", "ctor", "h1")
    \/ ops["main"] = 1 /\ Call("main", "ctor", "h2")
    \/ ops["main"] >= 2 /\ Call("main", "interrupt", "h1")
    \/ ops["main"] >= 2 /\ Call("main", "signal", "h1")

MutexMain ==
    \/ MutexCall
    \/ \E f \in {"wait", WaitForWork(1)} : CtorBegin("main", f)
    \/ CtorLoop("main")
    \/ WuCheck1("main")
    \/ WuPred("main")
    \/ WakeNotified("main")
    \/ WuReacq("main")
    \/ WuCheck2("main")
    \/ Interrupt("main")
    \/ MuLock("main")
    \/ SigSet("main")

MutexNext ==
    \/ MutexMain
    \/ \E w \in Workers : BlockingWorker(w)
    \/ \E t \in {"main"} \cup Workers : Unforced(t)

\* Every thread that can take a step is eventually scheduled, and a thread
\* that waits for a std::mutex gets it if it is free again and again;
\* nothing forces a deadline to pass or a spurious wakeup to happen.
MutexSpec ==
    /\ Init
    /\ [][MutexNext]_vars
    /\ WF_vars(MutexMain)
    /\ \A w \in Workers :
         /\ WF_vars(BlockingWorker(w))
         /\ SF_vars(HsLock(w))
         /\ SF_vars(MuLock(w))
         /\ SF_vars(WuReacq(w))

----------------------------------------------------------------------------
\* The program of readme.md under a scheduler that is also fair to the
\* thread that waits for the handshake mutex.
HsSpec ==
    /\ Init
    /\ [][ScriptNext]_vars
    /\ WF_vars(ScriptMain)
    /\ WF_vars(ScriptWorker)
    /\ SF_vars(HsLock("w1"))

----------------------------------------------------------------------------
\* The program that lets Thread objects go out of scope: main constructs
\* Threads, interrupts them and destroys them, and a unit of work destroys
\* the Thread object it runs in.
DtorMain ==
    \/ \E name \in {"ctor", "interrupt", "destroy"}, h \in Handles :
          Call("main", name, h)
    \/ \E f \in DtorWorks : CtorBegin("main", f)
    \/ CtorLoop("main")
    \/ WuCheck1("main")
    \/ WuPred("main")
    \/ WakeNotified("main")
    \/ WuReacq("main")
    \/ WuCheck2("main")
    \/ Interrupt("main")
    \/ DtorBegin("main")
    \/ DtorJoin("main")

DtorWorker(w) ==
    \/ Start(w)
    \/ WuCheck1(w)
    \/ WuPred(w)
    \/ WakeStop(w)
    \/ WuReacq(w)
    \/ WuCheck2(w)
    \/ DtorBegin(w)
    \/ DtorJoin(w)

DtorNext ==
    \/ DtorMain
    \/ \E w \in Workers : DtorWorker(w)
    \/ \E t \in {"main"} \cup Workers : Unforced(t)

DtorSpec == Init /\ [][DtorNext]_vars

----------------------------------------------------------------------------
\* C1: start-up handshake safety.  In the step in which the constructor
\* returns, m_info of the new Thread refers to the Info of the thread it
\* started, that Info holds the thread's stop token, and isRunning( ) is
\* true; and the lambda reaches the call of f only after it has stored
\* both and the constructor has seen or can see them.
C1_HandshakeSafety ==
    [][ /\ \A t \in Threads :
             (pc[t] = "ctor_loop" /\ pc'[t] = "idle") =>
                LET h == hnd[t]
                    w == WorkerOf(hnd[t])
                IN  /\ m_info'[h] = w
                    /\ info'[w].stopToken = w
                    /\ m_thread'[h].tid = w
                    /\ pc'[w] \notin {"unborn", "hs_lock", "hs_info", "hs_token"}
        /\ \A w \in Workers :
             (pc[w] # "run" /\ pc'[w] = "run") =>
                /\ info'[w].stopToken = w
                /\ \/ m_info'[HandleOf(w)] = w
                   \/ state'[HandleOf(w)] # "starting"
      ]_vars

\* The constructor has just returned while the started thread has not yet
\* called notifyAll( ).
C1_Witness ==
    /\ pc["main"] = "idle"
    /\ op["main"] = "ctor"
    /\ state[hnd["main"]] = "live"
    /\ pc[WorkerOf(hnd["main"])] = "hs_notify"
    /\ m_info[hnd["main"]] = WorkerOf(hnd["main"])

----------------------------------------------------------------------------
\* The thread of worker w has been started and has not left the blocking
\* call of its unit of work.
BeforeExit(w) ==
    pc[w] \in {"hs_unlock", "hs_notify", "run", "mu_lock", "wu_check1",
               "wu_pred", "wu_blocked", "wu_reacq", "wu_check2"}

\* C2: construct a Thread that sleeps; interrupt( ); join( ).  Whenever the
\* stop request is made before the worker has left Thread::sleep (before
\* it entered it, or while it is blocked in it), join( ) eventually returns
\* and raises the InterruptException captured from the worker, without any
\* deadline having to pass.
C2_InterruptedSleepJoins ==
    (work["w1"] = "sleep" /\ stop_requested["w1"] /\ BeforeExit("w1"))
      ~> (/\ pc["main"] = "idle"
          /\ op["main"] = "join"
          /\ raised["main"] = "Interrupt"
          /\ pc["w1"] = "finished")

\* C10: a thread blocked in wait( predicate ) whose predicate stays false
\* and whose condition variable is never notified eventually wakes and
\* raises InterruptException once interrupt( ) has been called on its
\* Thread.
C10_InterruptedWaitRaises ==
    (work["w1"] = "wait" /\ pc["w1"] = "wu_blocked" /\ stop_requested["w1"])
      ~> (pc["w1"] = "finished" /\ raised["w1"] = "Interrupt" /\ ~ready)

\* The worker is blocked in wait( predicate ), unnotified, and interrupted.
C10_Witness ==
    /\ work["w1"] = "wait"
    /\ pc["w1"] = "wu_blocked"
    /\ stop_requested["w1"]
    /\ ~woken["w1"]
    /\ ~ready

----------------------------------------------------------------------------
\* The Info that a check( ) in progress or about to return reads.
CheckTarget(t) == IF pc[t] = "check_rethrow" THEN self[t] ELSE m_info[hnd[t]]

\* C3: an error E that escapes the unit of work is captured (the thread
\* ends normally and E stays pending until a call delivers it); a
\* check( )/join( ) that returns leaves nothing pending and raises exactly
\* when it delivers the failure, which is E; so the first call after the
\* worker has completed raises E and the next one raises nothing.
C3_CapturedThenRaisedOnce ==
    /\ [](\A w \in Workers :
            (work[w] = "throw" /\ pc[w] = "finished") =>
               /\ delivered[w] <= 1
               /\ pc["main"] = "idle" =>
                    ((info[w].exception = "E") <=> (delivered[w] = 0)))
    /\ [][ (pc["main"] \in {"check_test", "check_rethrow"}
              /\ pc'["main"] = "idle") =>
             LET i == CheckTarget("main") IN
             /\ i # None => info'[i].exception = None
             /\ (raised'["main"] # None) <=> (delivered' # delivered)
             /\ (i # None /\ work[i] = "throw" /\ raised'["main"] # None)
                   => raised'["main"] = "E"
             /\ (i # None /\ work[i] = "throw" /\ pc[i] = "finished"
                   /\ delivered[i] = 0) => raised'["main"] = "E"
         ]_vars

\* A second check( )/join( ) has returned without raising after the first
\* one delivered the failure.
C3_Witness ==
    /\ pc["main"] = "idle"
    /\ op["main"] \in {"check", "join"}
    /\ raised["main"] = None
    /\ m_info[hnd["main"]] # None
    /\ work[m_info[hnd["main"]]] = "throw"
    /\ delivered[m_info[hnd["main"]]] = 1

----------------------------------------------------------------------------
\* C4: exactly-once delivery.  Whatever the interleaving of the check( )
\* and join( ) calls that several threads make on a Thread, the failure
\* captured from its unit of work is raised to at most one of them (and no
\* call is left rethrowing an empty exception_ptr).
C4_RaisedToOneCaller ==
    /\ \A w \in Workers : delivered[w] <= 1
    /\ \A c \in Callers : raised[c] # "Abort"

\* C5: a Thread that has been moved from is empty: it owns no thread and
\* holds no Info, so check( )/join( ) on it cannot raise the worker's
\* failure.
C5_MovedFromIsEmpty ==
    \A h \in Handles :
       state[h] = "moved" =>
          /\ ~isRunning(h)
          /\ m_info[h] = None
          /\ \A c \in Callers :
               (hnd[c] = h /\ op[c] \in {"check", "join"}) =>
                  pc[c] \notin {"check_move", "check_rethrow"}

----------------------------------------------------------------------------
\* C6: reset( ) of a running Thread requests the stop of the owned thread,
\* then joins it (waiting until it has ended) when the caller is another
\* thread and detaches it when the caller is the owned thread; it never
\* joins itself; afterwards the Thread is not running and holds no Info.
\* reset( ) of a Thread that is not running changes nothing.
C6_Reset ==
    /\ [](\A t \in Threads :
            pc[t] = "reset_join" =>
               /\ isRunning(hnd[t])
               /\ m_thread[hnd[t]].tid # t)
    /\ [][ProcessAlive' => \A t \in Threads :
            LET h == hnd[t]
                tid == m_thread[hnd[t]].tid
            IN
            /\ (pc[t] = "reset_begin" /\ pc'[t] # "reset_begin") =>
                 IF isRunning(h)
                 THEN /\ stop_requested'[tid]
                      /\ IF t = tid
                         THEN /\ pc'[t] # "reset_join"
                              /\ m_thread'[h].tid = None
                              /\ m_info'[h] = None
                         ELSE /\ pc'[t] = "reset_join"
                              /\ UNCHANGED <<m_thread, m_info>>
                 ELSE UNCHANGED <<m_thread, m_info, stop_requested, state,
                                  info, delivered>>
            /\ (pc[t] = "reset_join" /\ pc'[t] # "reset_join") =>
                 /\ pc[tid] = "finished"
                 /\ stop_requested[tid]
                 /\ m_thread'[h].tid = None
                 /\ m_info'[h] = None
         ]_vars

\* The owned thread has reset its own Thread: it was detached, not joined.
C6_Witness ==
    /\ op["w1"] = "reset"
    /\ pc["w1"] = "finished"
    /\ stop_requested["w1"]
    /\ ~isRunning("h1")
    /\ m_info["h1"] = None
    /\ state["h1"] = "live"

\* C7: isolation of cancellation.  A thread that was not started through
\* Thread never observes cancellation; a worker observes only the stop
\* state of its own jthread; and that stop state becomes requested only in
\* a step of interrupt( ) or reset( ) on a Thread object that holds it.
C7_Isolation ==
    /\ [](\A c \in Callers : ~isInterrupted(c))
    /\ [](\A w \in Workers : isInterrupted(w) => stop_requested[w])
    /\ [][\A w \in Workers :
            (stop_requested'[w] /\ ~stop_requested[w]) =>
               \E t \in Threads :
                  /\ pc[t] \in {"interrupt", "reset_begin"}
                  /\ pc'[t] # pc[t]
                  /\ m_thread[hnd[t]].ssource = w
         ]_vars

\* One Thread has been interrupted while the worker of the other is at a
\* checkpoint and observes no cancellation.
C7_Witness ==
    /\ stop_requested["w1"]
    /\ isInterrupted("w1")
    /\ pc["w2"] = "y_check2"
    /\ info["w2"].stopToken = "w2"
    /\ ~isInterrupted("w2")

\* C8: cancellation is monotonic and interrupt( ) is idempotent.  A stop
\* state that is requested stays requested, and so does what the worker
\* observes; interrupt( ) leaves the stop state of its jthread requested;
\* and an interrupt( ) of a Thread whose stop was already requested
\* changes nothing but the caller's position.
C8_InterruptIdempotent ==
    [][ ProcessAlive' =>
        /\ \A w \in Workers :
             /\ stop_requested[w] => stop_requested'[w]
             /\ isInterrupted(w) => isInterrupted(w)'
        /\ \A t \in Threads :
             (pc[t] = "interrupt" /\ pc'[t] # "interrupt") =>
                LET ss == m_thread[hnd[t]].ssource IN
                /\ ss # None => stop_requested'[ss]
                /\ raised'[t] = None
                /\ (ss # None /\ stop_requested[ss]) =>
                      UNCHANGED <<e, state, m_thread, m_info, info,
                                  stop_requested, work, owner, initial,
                                  calls, woken, timedout, cause, result,
                                  ready, self, delivered>>
      ]_vars

\* A second interrupt( ) has returned while the worker is still blocked.
C8_Witness ==
    /\ pc["main"] = "idle"
    /\ op["main"] = "interrupt"
    /\ hnd["main"] = "h1"
    /\ ops["main"] = 3
    /\ state["h2"] = "raw"
    /\ isRunning("h1")
    /\ stop_requested["w1"]
    /\ pc["w1"] = "wu_blocked"

\* No failure is pending in the Info that Thread h holds.
NothingPending(h) ==
    m_info[h] = None \/ info[m_info[h]].exception = None

\* C9: m_thread.join( ) inside join( ) returns only when the unit of work
\* has ended, and leaves the Thread not running, as it is whenever join( )
\* returns; when the unit of work has already ended the join does not
\* block, and a Thread that is not running is not waited for at all; a
\* join( ) that finds nothing pending returns without raising; and a
\* join( ) that has returned leaves nothing pending in the Thread, where
\* only a unit of work that ends can make a failure pending again.
C9_Join ==
    /\ []((pc["main"] = "join_wait"
             /\ pc[m_thread[hnd["main"]].tid] = "finished")
          => ENABLED JoinWait("main"))
    /\ [][ ProcessAlive' => LET h == hnd["main"] IN
           /\ (pc["main"] = "join_wait" /\ pc'["main"] # "join_wait") =>
                /\ isRunning(h)
                /\ pc[m_thread[h].tid] = "finished"
                /\ m_thread'[h].tid = None
           /\ (pc["main"] = "join_begin" /\ ~isRunning(h)
                 /\ pc'["main"] # "join_begin") => pc'["main"] = "check_test"
           /\ (op["main"] = "join" /\ pc["main"] # "idle"
                 /\ pc'["main"] = "idle") =>
                /\ m_thread'[h].tid = None
                /\ m_info'[h] = None \/ info'[m_info'[h]].exception = None
           /\ (op["main"] = "join" /\ pc["main"] = "check_test"
                 /\ pc'["main"] # "check_test" /\ NothingPending(h)) =>
                /\ pc'["main"] = "idle"
                /\ raised'["main"] = None
           /\ \A w \in Workers :
                (info[w].exception = None /\ info'[w].exception # None) =>
                  /\ pc[w] # "finished"
                  /\ pc'[w] = "finished"
         ]_vars

\* join( ) has returned without raising from a Thread that was joined
\* before.
C9_Witness ==
    /\ pc["main"] = "idle"
    /\ op["main"] = "join"
    /\ ops["main"] = 3
    /\ hnd["main"] = "h1"
    /\ state["h2"] = "raw"
    /\ raised["main"] = None
    /\ m_info["h1"] = "w1"
    /\ work["w1"] = "throw"
    /\ delivered["w1"] = 1

----------------------------------------------------------------------------
\* Worker w returns normally from the wait of its unit of work in this step.
WaitReturns(w) ==
    /\ pc[w] = "wu_check2"
    /\ pc'[w] = "finished"
    /\ raised'[w] = None

\* C11: Thread::sleep( d ) with d > 0 returns normally only once d has
\* elapsed: the wakeup that ends a sleep that returns is the one of the
\* deadline, never a spurious one.
C11_SleepUntilDeadline ==
    [][\A w \in Workers :
          (op[w] = "sleep" /\ WaitReturns(w)) => cause[w] = "deadline"
      ]_vars

\* C12: the unconditioned waitFor( d ) returns std::cv_status::timeout
\* exactly when its deadline passed, and std::cv_status::no_timeout when a
\* notifyOne( )/notifyAll( ) woke it before the deadline.
C12_TimeoutReported ==
    [][\A w \in Workers :
          (op[w] = "timedWait" /\ WaitReturns(w)) =>
             /\ cause[w] = "notified" => cv_status(result[w]) = "no_timeout"
             /\ cause[w] = "deadline" => cv_status(result[w]) = "timeout"
      ]_vars

----------------------------------------------------------------------------
\* The positions inside waitUntil.
InWaitUntil == {"wu_check1", "wu_pred", "wu_blocked", "wu_reacq", "wu_check2"}

\* C13: waitFor( d, pred ) called by a thread that is not interrupted.
\* With d <= 0 it never enters waitUntil: it checks the interruption, then
\* calls the predicate exactly once and returns its value.  With any d,
\* when the predicate is true on entry, its first call ends the wait: the
\* thread does not block and waitFor returns true.
C13_WaitForSatisfied ==
    /\ [](\A w \in Workers :
            (op[w] \in WaitForWorks /\ Duration(op[w]) <= 0) =>
               /\ pc[w] \notin InWaitUntil
               /\ calls[w] <= 1)
    /\ [][ProcessAlive' => \A w \in Workers :
            op[w] \in WaitForWorks =>
              /\ (pc[w] = "wf_begin" /\ pc'[w] # "wf_begin"
                    /\ Duration(op[w]) <= 0) =>
                   IF StopRequested(w)
                   THEN /\ pc'[w] = "finished"
                        /\ raised'[w] = "Interrupt"
                        /\ calls'[w] = 0
                   ELSE pc'[w] = "wf_pred"
              /\ (pc[w] = "wf_pred" /\ pc'[w] # "wf_pred") =>
                   /\ pc'[w] = "finished"
                   /\ raised'[w] = None
                   /\ result'[w] = ready
                   /\ calls'[w] = 1
              /\ (pc[w] = "wu_pred" /\ pc'[w] # "wu_pred" /\ calls[w] = 0
                    /\ ready /\ ~StopRequested(w)) =>
                   /\ pc'[w] = "wu_check2"
                   /\ result'[w]
                   /\ calls'[w] = 1
              /\ (pc[w] = "wu_check2" /\ pc'[w] # "wu_check2"
                    /\ calls[w] = 1 /\ result[w] /\ ~StopRequested(w)) =>
                   /\ pc'[w] = "finished"
                   /\ raised'[w] = None
         ]_vars

\* Both waitFor units of work have returned true after a single call of
\* the predicate: one with no time to wait, one with the infinite duration.
C13_Witness ==
    /\ op["w1"] = WaitForWork(0)
    /\ op["w2"] = WaitForWork(DurMax)
    /\ \A w \in Workers :
         /\ pc[w] = "finished"
         /\ raised[w] = None
         /\ result[w]
         /\ calls[w] = 1
         /\ ~stop_requested[w]

----------------------------------------------------------------------------
\* C14: detach( ) of a running Thread lets the thread go without waiting
\* for it and without requesting its stop: the Thread is no longer running
\* and holds no Info, the stop states and the thread itself are as they
\* were; detach( ) of a Thread that is not running changes nothing; and
\* check( ) of a Thread that holds no Info returns without raising.
C14_Detach ==
    [][ProcessAlive' => \A t \in Threads :
          /\ (pc[t] = "detach" /\ pc'[t] # "detach") =>
               LET h == hnd[t]
                   tid == m_thread[hnd[t]].tid
               IN  /\ pc'[t] = "idle"
                   /\ raised'[t] = None
                   /\ UNCHANGED <<stop_requested, info, state, delivered>>
                   /\ IF isRunning(h)
                      THEN /\ m_thread'[h].tid = None
                           /\ m_info'[h] = None
                           /\ pc'[tid] = pc[tid]
                      ELSE UNCHANGED <<m_thread, m_info>>
          /\ (pc[t] = "check_test" /\ pc'[t] # "check_test"
                /\ m_info[hnd[t]] = None) =>
               /\ pc'[t] = "idle"
               /\ raised'[t] = None
      ]_vars

\* main has detached a Thread whose unit of work is still blocked in its
\* sleep, and no stop has been requested.
C14_Witness ==
    /\ pc["main"] = "idle"
    /\ op["main"] = "detach"
    /\ hnd["main"] = "h1"
    /\ ~isRunning("h1")
    /\ m_info["h1"] = None
    /\ work["w1"] = "sleep"
    /\ pc["w1"] = "wu_blocked"
    /\ ~stop_requested["w1"]

----------------------------------------------------------------------------
\* C15: a wait with a predicate is a checkpoint on entry and on exit.  A
\* stop request stays visible once made; a thread that enters the wait
\* interrupted throws before it calls the predicate; and a thread that is
\* interrupted when the wait ends throws InterruptException, whatever woke
\* it and whatever the predicate returned, so a wait that returns normally
\* was not interrupted before or while it was blocked.
C15_WaitIsCheckpoint ==
    [][ProcessAlive' => \A w \in Workers :
          /\ StopRequested(w) => StopRequested(w)'
          /\ ClientPred(w) =>
               /\ (pc[w] \in {"wu_check1", "wu_check2"} /\ pc'[w] # pc[w]
                     /\ StopRequested(w)) =>
                    /\ pc'[w] = "finished"
                    /\ raised'[w] = "Interrupt"
                    /\ calls'[w] = calls[w]
               /\ (pc[w] = "wf_begin" /\ pc'[w] # pc[w]
                     /\ StopRequested(w)) =>
                    \/ pc'[w] = "wu_check1"
                    \/ pc'[w] = "finished" /\ raised'[w] = "Interrupt"
               /\ (pc[w] = "wu_blocked" /\ StopRequested(w)) =>
                    pc'[w] \in {"wu_blocked", "wu_reacq"}
               /\ WaitReturns(w) => ~StopRequested(w)
      ]_vars

\* A wait( predicate ) that was notified with its predicate true has
\* thrown InterruptException, the thread having been interrupted as well.
C15_Witness ==
    /\ op["w1"] = "wait"
    /\ pc["w1"] = "finished"
    /\ raised["w1"] = "Interrupt"
    /\ ready
    /\ result["w1"]
    /\ calls["w1"] = 0
    /\ stop_requested["w1"]

----------------------------------------------------------------------------
\* C16: waitUntil( deadline, predicate ) and spurious wakeups.  Every
\* wakeup is followed by a call of the predicate before the wait can end;
\* a wait that returns normally returns the value the predicate has, and
\* returns false only after its deadline has passed.
C16_SpuriousTolerated ==
    [][ProcessAlive' => \A w \in Workers :
          op[w] \in WaitForWorks =>
            /\ (pc[w] = "wu_reacq" /\ pc'[w] # "wu_reacq") =>
                 \/ pc'[w] = "wu_pred"
                 \/ /\ pc'[w] = "wu_check2"
                    /\ cause[w] = "deadline"
                    /\ calls'[w] = calls[w] + 1
                    /\ result'[w] = ready
            /\ (pc[w] = "wu_pred" /\ pc'[w] # "wu_pred") =>
                 /\ calls'[w] = calls[w] + 1
                 /\ pc'[w] = "wu_check2" => result'[w] = ready
                 /\ (~ready /\ ~StopRequested(w)) => pc'[w] = "wu_blocked"
            /\ WaitReturns(w) =>
                 /\ result[w] = ready
                 /\ ~result[w] => (HasDeadline(w) /\ cause[w] = "deadline")
      ]_vars

\* After a spurious wakeup with the predicate false the thread has
\* blocked again, and the wait has returned false when the deadline came.
C16_Witness ==
    /\ op["w1"] = WaitForWork(1)
    /\ pc["w1"] = "finished"
    /\ raised["w1"] = None
    /\ ~result["w1"]
    /\ ~ready
    /\ calls["w1"] = 3

----------------------------------------------------------------------------
\* hasLock( ) of the Lock on mutex m in the scope thread t is in, from
\* the position of t in the code.
HasLock(t, m) ==
    CASE pc[t] \in {"hs_info", "hs_token", "hs_unlock"} -> m = HsMutex(t)
      [] pc[t] = "ctor_loop" -> m = HsMutex(WorkerOf(hnd[t]))
      [] pc[t] \in {"sig_set", "wf_begin", "wf_pred"} -> m = UserMutex
      [] pc[t] \in {"wu_check1", "wu_pred", "wu_check2"} -> m = WaitMutex(t)
      [] OTHER -> FALSE

\* Every Thread has been constructed and every handshake is over.
Settled == \A w \in Workers : pc[w] \notin {"unborn", "hs_lock", "hs_info",
                                            "hs_token", "hs_unlock",
                                            "hs_notify", "terminated"}

\* C17: mutual exclusion.  No two threads are in a scope whose Lock owns
\* the same mutex, and std::mutex records as its owner exactly the thread
\* that is in such a scope; a thread inside a wait has given the mutex up
\* exactly while it is blocked or waking; a wait that returns or throws
\* does so with the mutex held and the end of the scope releases it; and
\* once the threads are started, a thread that waits in Mutex::lock( )
\* eventually gets the mutex.
C17_MutualExclusion ==
    /\ [](\A m \in Mutexes, t \in Threads, u \in Threads :
            (HasLock(t, m) /\ HasLock(u, m)) => t = u)
    /\ [](ProcessAlive =>
            \A m \in Mutexes, t \in Threads :
               (owner[m] = t) <=> HasLock(t, m))
    /\ [](\A t \in Threads :
            pc[t] \in {"wu_blocked", "wu_reacq"} => owner[WaitMutex(t)] # t)
    /\ [][ProcessAlive' => \A w \in Workers :
            (pc[w] \in {"wf_begin", "wf_pred", "wu_check1", "wu_check2"}
               /\ pc'[w] = "finished") =>
                 /\ owner[WaitMutex(w)] = w
                 /\ \A m \in Mutexes : owner'[m] # w
         ]_vars
    /\ \A w \in Workers :
         (Settled /\ pc[w] = "mu_lock") ~> (pc[w] # "mu_lock")

\* A thread waits in Mutex::lock( ) while the other one, interrupted,
\* is about to throw out of its wait with the mutex held.
C17_Witness ==
    /\ Settled
    /\ pc["w2"] = "mu_lock"
    /\ pc["w1"] = "wu_check2"
    /\ owner[UserMutex] = "w1"
    /\ stop_requested["w1"]

----------------------------------------------------------------------------
\* C18: handshake liveness.  A constructor that has started its thread
\* eventually returns; and the constructor is never left blocked after the
\* lambda has called notifyAll( ): if it is blocked then, the notification
\* is pending for it.
C18_HandshakeLiveness ==
    /\ [](\A h \in Handles :
            (state[h] = "starting" /\ pc["main"] = "wu_blocked"
               /\ hnd["main"] = h
               /\ pc[WorkerOf(h)] \notin {"hs_lock", "hs_info", "hs_token",
                                          "hs_unlock", "hs_notify"})
              => woken["main"])
    /\ (state["h1"] = "starting") ~> (state["h1"] = "live" /\ m_info["h1"] = "w1")

\* The lambda has notified the constructor, which is still blocked: the
\* notification is pending for it.
C18_Witness ==
    /\ state["h1"] = "starting"
    /\ pc["main"] = "wu_blocked"
    /\ pc["w1"] = "run"
    /\ woken["main"]

----------------------------------------------------------------------------
\* C19: destroying a running Thread is like reset( ): the thread that
\* destroys it joins the owned thread only if it is another thread, and
\* never joins itself.
C19_DestroyLikeReset ==
    \A t \in Threads :
       pc[t] = "dtor_join" => m_thread[hnd[t]].tid # t

----------------------------------------------------------------------------
\* C20: the lambda locks, unlocks and notifies through the constructor's
\* local Mutex, and writes m_info, only while the constructor is still
\* executing.
C20_HandshakeLifetime ==
    \A w \in Workers :
       pc[w] \in {"hs_lock", "hs_info", "hs_token", "hs_unlock", "hs_notify"}
          => state[HandleOf(w)] = "starting"

====
